---- MODULE Spec2Model ----
(***************************************************************************)
(* Model of sushy_tools/emulator/drivers/novadriver.py: OpenStackDriver,   *)
(* the Redfish-emulator driver that maps power control, boot-device        *)
(* selection and inventory queries onto an OpenStack compute cloud.        *)
(*                                                                         *)
(* The cloud (servers, their power code, metadata and flavor, and the      *)
(* flavor catalog) is the state; every driver method is one action that    *)
(* records the call, its result and the backend commands it issued.        *)
(***************************************************************************)
EXTENDS Integers, Sequences, FiniteSets, TLC

VARIABLES
    servers,    \* the cloud's servers: [subset of ServerIds -> server record]
    flavors,    \* the cloud's flavor catalog: [subset of FlavorIds -> flavor]
    os_cloud,   \* self._os_cloud, the cloud name given to the constructor
    last,       \* the latest event: a driver call (with result) or a backend change
    prev        \* whether the event before `last` was the same call, and its commands

vars == <<servers, flavors, os_cloud, last, prev>>

----------------------------------------------------------------------------
(* Bounds of the model *)

MaxPowerCode == 2

MaxRamGiB == 2

MaxVcpus == 2

----------------------------------------------------------------------------
(* Program constants *)

NOVA_POWER_STATE_ON == 1

BOOT_DEVICE_MAP == [Pxe |-> "network", Hdd |-> "hd", Cd |-> "cdrom"]

BOOT_DEVICE_MAP_REV ==
    [v \in {BOOT_DEVICE_MAP[k] : k \in DOMAIN BOOT_DEVICE_MAP} |->
        CHOOSE k \in DOMAIN BOOT_DEVICE_MAP : BOOT_DEVICE_MAP[k] = v]

PxeFirstKey == "libvirt:pxe-first"

\* The messages of the three FishyError the driver raises, before interpolation
InstanceNotFoundMsg ==
    "Error finding instance by UUID \"%(identity)s\" at OS cloud %(os_cloud)s\""

UnknownResetTypeMsg == "Unknown ResetType \"%(state)s\""

UnknownBootSourceMsg == "Unknown power state requested: %(boot_source)s"

----------------------------------------------------------------------------
(* Domains of the cloud's state and of the callers' inputs *)

ServerIds == {"uuid-1"}

ServerName(id) == "node-1"

FlavorIds == {"m1.small"}

Identities == ServerIds \cup {ServerName(id) : id \in ServerIds} \cup {"no-such-vm"}

PowerCodes == 0..MaxPowerCode

RamValues == {k * 1024 + d : k \in 0..MaxRamGiB, d \in {0, 1}} \cup {1537}

Flavors == [ram : RamValues, vcpus : 1..MaxVcpus]

FlagValues == {"", "0", "1"}

Metadatas ==
    {[k \in {} |-> ""]}
    \cup [{PxeFirstKey} -> FlagValues]
    \cup [{"role"} -> {"db"}]
    \cup {[k \in {PxeFirstKey, "role"} |-> IF k = "role" THEN "db" ELSE v] : v \in FlagValues}

ServerRecs ==
    [name : {ServerName(id) : id \in ServerIds}, power_state : PowerCodes,
     flavor_id : FlavorIds, metadata : Metadatas]

Clouds ==
    UNION {{s \in [S -> ServerRecs] : \A id \in S : s[id].name = ServerName(id)} :
           S \in SUBSET ServerIds}

Catalogs == UNION {[F -> Flavors] : F \in SUBSET FlavorIds}

ResetTypes ==
    {"On", "ForceOn", "ForceOff", "GracefulShutdown", "GracefulRestart",
     "ForceRestart", "Nmi", "PushPowerButton"}

BootSources == {"Pxe", "Hdd", "Cd", "Usb"}

----------------------------------------------------------------------------
(* Python values: what a call returns or raises *)

Value(kind, exc, text, args, str, num) ==
    [kind |-> kind, exc |-> exc, text |-> text, args |-> args, str |-> str, num |-> num]

PyNone == Value("None", "", "", <<>>, "", 0)

PyStr(s) == Value("str", "", "", <<>>, s, 0)

PyInt(n) == Value("int", "", "", <<>>, "", n)

Raise(exc, text, args) == Value("raise", exc, text, args, "", 0)

FishyError(text, args) == Raise("FishyError", text, args)

Raised(v, exc) == v.kind = "raise" /\ v.exc = exc

\* bool(v) of a Python value that is None or a str
Truthy(v) == v.kind = "str" /\ v.str # ""

\* metadata.get(key)
DictGet(d, key) == IF key \in DOMAIN d THEN PyStr(d[key]) ELSE PyNone

\* d.update({key: value})
DictSet(d, key, value) ==
    [k \in DOMAIN d \cup {key} |-> IF k = key THEN value ELSE d[k]]

\* CeilDiv with a slip: int(n / 1024.), the floor
CeilDiv_floor(n, d) == n \div d

\* int(math.ceil(n / 1024.))
CeilDiv(n, d) == IF n % d = 0 THEN n \div d ELSE (n \div d) + 1

----------------------------------------------------------------------------
(* The backend client, self._cc *)

\* self._cc.get_server(identity): the servers matching a name or an id
get_server(identity) ==
    {id \in DOMAIN servers : id = identity \/ servers[id].name = identity}

\* self._cc.get_flavor(flavor_id): the flavor, or None when the catalog has none
get_flavor(flavor_id) ==
    IF flavor_id \in DOMAIN flavors
    THEN Value("flavor", "", "", <<>>, flavor_id, 0)
    ELSE PyNone

\* One call on self._cc.compute that changes the cloud
Command(call, id, arg) == [call |-> call, id |-> id, arg |-> arg]

\* The cloud after the backend has accepted the commands, in order.  start, stop
\* and reboot are only requests: the power code changes later, if at all.
RECURSIVE Accept(_, _)
Accept(cloud, cmds) ==
    IF cmds = <<>> THEN cloud
    ELSE LET c == Head(cmds)
             after ==
                 IF c.call = "set_server_metadata" /\ c.id \in DOMAIN cloud
                 THEN [cloud EXCEPT ![c.id].metadata = DictSet(@, PxeFirstKey, c.arg)]
                 ELSE cloud
         IN  Accept(after, Tail(cmds))

----------------------------------------------------------------------------
(* OpenStackDriver *)

_get_instance(identity) ==
    LET server == get_server(identity)
    IN  IF server # {}
        THEN Value("server", "", "", <<>>, CHOOSE id \in server : TRUE, 0)
        ELSE FishyError(InstanceNotFoundMsg, <<identity, os_cloud>>)

_get_flavor(identity) ==
    LET instance == _get_instance(identity)
    IN  IF instance.kind = "raise" THEN instance
        ELSE get_flavor(servers[instance.str].flavor_id)

\* A method's outcome: what it returns or raises, and the commands it issued
Outcome(result, cmds) == [result |-> result, cmds |-> cmds]

uuid(identity) ==
    LET instance == _get_instance(identity)
    IN  IF instance.kind = "raise" THEN Outcome(instance, <<>>)
        ELSE Outcome(PyStr(instance.str), <<>>)

\* get_power_state with a slip: any non-zero power code counts as On
get_power_state_nonzero(identity) ==
    LET instance == _get_instance(identity)
    IN  IF Raised(instance, "FishyError") THEN Outcome(PyNone, <<>>)
        ELSE IF servers[instance.str].power_state # 0
             THEN Outcome(PyStr("On"), <<>>)
             ELSE Outcome(PyStr("Off"), <<>>)

get_power_state(identity) ==
    LET instance == _get_instance(identity)
    IN  IF Raised(instance, "FishyError") THEN Outcome(PyNone, <<>>)
        ELSE IF servers[instance.str].power_state = NOVA_POWER_STATE_ON
             THEN Outcome(PyStr("On"), <<>>)
             ELSE Outcome(PyStr("Off"), <<>>)

\* set_power_state with one slip each: the start issued without looking at
\* the power code; the stop of GracefulShutdown issued without looking at it; an
\* unknown ResetType accepted in silence
set_power_state_slip(identity, state, start_unchecked, shutdown_unchecked, unknown_accepted) ==
    LET instance == _get_instance(identity)
    IN  IF instance.kind = "raise" THEN Outcome(instance, <<>>)
        ELSE LET id == instance.str
                 on == servers[id].power_state = NOVA_POWER_STATE_ON
                 when(cond, call, arg) ==
                     IF cond THEN Outcome(PyNone, <<Command(call, id, arg)>>)
                     ELSE Outcome(PyNone, <<>>)
             IN  CASE state \in {"On", "ForceOn"} ->
                          when(start_unchecked \/ ~on, "start_server", "")
                   [] state = "ForceOff" -> when(on, "stop_server", "")
                   [] state = "GracefulShutdown" ->
                          when(shutdown_unchecked \/ on, "stop_server", "")
                   [] state = "GracefulRestart" -> when(on, "reboot_server", "SOFT")
                   [] state = "ForceRestart" -> when(on, "reboot_server", "HARD")
                   [] OTHER ->
                          IF unknown_accepted THEN Outcome(PyNone, <<>>)
                          ELSE Outcome(FishyError(UnknownResetTypeMsg, <<state>>), <<>>)

set_power_state_start_unchecked(identity, state) ==
    set_power_state_slip(identity, state, TRUE, FALSE, FALSE)

set_power_state_shutdown_unchecked(identity, state) ==
    set_power_state_slip(identity, state, FALSE, TRUE, FALSE)

set_power_state_unknown_accepted(identity, state) ==
    set_power_state_slip(identity, state, FALSE, FALSE, TRUE)

set_power_state(identity, state) ==
    LET instance == _get_instance(identity)
    IN  IF instance.kind = "raise" THEN Outcome(instance, <<>>)
        ELSE LET id == instance.str
                 power_state == servers[id].power_state
             IN  IF state \in {"On", "ForceOn"}
                 THEN IF power_state # NOVA_POWER_STATE_ON
                      THEN Outcome(PyNone, <<Command("start_server", id, "")>>)
                      ELSE Outcome(PyNone, <<>>)
                 ELSE IF state = "ForceOff"
                 THEN IF power_state = NOVA_POWER_STATE_ON
                      THEN Outcome(PyNone, <<Command("stop_server", id, "")>>)
                      ELSE Outcome(PyNone, <<>>)
                 ELSE IF state = "GracefulShutdown"
                 THEN IF power_state = NOVA_POWER_STATE_ON
                      THEN Outcome(PyNone, <<Command("stop_server", id, "")>>)
                      ELSE Outcome(PyNone, <<>>)
                 ELSE IF state = "GracefulRestart"
                 THEN IF power_state = NOVA_POWER_STATE_ON
                      THEN Outcome(PyNone, <<Command("reboot_server", id, "SOFT")>>)
                      ELSE Outcome(PyNone, <<>>)
                 ELSE IF state = "ForceRestart"
                 THEN IF power_state = NOVA_POWER_STATE_ON
                      THEN Outcome(PyNone, <<Command("reboot_server", id, "HARD")>>)
                      ELSE Outcome(PyNone, <<>>)
                 ELSE Outcome(FishyError(UnknownResetTypeMsg, <<state>>), <<>>)

\* get_boot_device with a slip: the flag's presence decides, not its value
get_boot_device_presence(identity) ==
    LET instance == _get_instance(identity)
    IN  IF Raised(instance, "FishyError") THEN Outcome(PyNone, <<>>)
        ELSE LET metadata == servers[instance.str].metadata
             IN  IF PxeFirstKey \in DOMAIN metadata
                 THEN Outcome(PyStr(BOOT_DEVICE_MAP_REV["network"]), <<>>)
                 ELSE Outcome(PyStr(BOOT_DEVICE_MAP_REV["hd"]), <<>>)

get_boot_device(identity) ==
    LET instance == _get_instance(identity)
    IN  IF Raised(instance, "FishyError") THEN Outcome(PyNone, <<>>)
        ELSE LET metadata == servers[instance.str].metadata
             IN  IF Truthy(DictGet(metadata, PxeFirstKey))
                 THEN Outcome(PyStr(BOOT_DEVICE_MAP_REV["network"]), <<>>)
                 ELSE Outcome(PyStr(BOOT_DEVICE_MAP_REV["hd"]), <<>>)

\* set_boot_device with a slip: '0' written for a disk boot instead of ''
set_boot_device_zero(identity, boot_source) ==
    LET instance == _get_instance(identity)
    IN  IF instance.kind = "raise" THEN Outcome(instance, <<>>)
        ELSE IF boot_source \notin DOMAIN BOOT_DEVICE_MAP
        THEN Outcome(FishyError(UnknownBootSourceMsg, <<boot_source>>), <<>>)
        ELSE LET target == BOOT_DEVICE_MAP[boot_source]
             IN  Outcome(PyNone,
                         <<Command("set_server_metadata", instance.str,
                                   IF target = "network" THEN "1" ELSE "0")>>)

set_boot_device(identity, boot_source) ==
    LET instance == _get_instance(identity)
    IN  IF instance.kind = "raise" THEN Outcome(instance, <<>>)
        ELSE IF boot_source \notin DOMAIN BOOT_DEVICE_MAP
        THEN Outcome(FishyError(UnknownBootSourceMsg, <<boot_source>>), <<>>)
        ELSE LET target == BOOT_DEVICE_MAP[boot_source]
             IN  Outcome(PyNone,
                         <<Command("set_server_metadata", instance.str,
                                   IF target = "network" THEN "1" ELSE "")>>)

AttributeError(attr) ==
    Raise("AttributeError", "'NoneType' object has no attribute '%s'", <<attr>>)

\* get_total_memory with a slip: no try/except around the flavor lookup
get_total_memory_uncaught(identity) ==
    LET flavor == _get_flavor(identity)
    IN  IF flavor.kind = "raise" THEN Outcome(flavor, <<>>)
        ELSE IF flavor.kind = "None" THEN Outcome(AttributeError("ram"), <<>>)
        ELSE Outcome(PyInt(CeilDiv(flavors[flavor.str].ram, 1024)), <<>>)

get_total_memory(identity) ==
    LET flavor == _get_flavor(identity)
    IN  IF Raised(flavor, "FishyError") THEN Outcome(PyNone, <<>>)
        ELSE IF flavor.kind = "None" THEN Outcome(AttributeError("ram"), <<>>)
        ELSE Outcome(PyInt(CeilDiv(flavors[flavor.str].ram, 1024)), <<>>)

get_total_cpus(identity) ==
    LET flavor == _get_flavor(identity)
    IN  IF Raised(flavor, "FishyError") THEN Outcome(PyNone, <<>>)
        ELSE IF flavor.kind = "None" THEN Outcome(AttributeError("vcpus"), <<>>)
        ELSE Outcome(PyInt(flavors[flavor.str].vcpus), <<>>)

----------------------------------------------------------------------------
(* Events: the record of the latest call, and what is kept of the one before *)

Event(op, identity, arg, out, pre) ==
    [op |-> op, identity |-> identity, arg |-> arg, result |-> out.result,
     cmds |-> out.cmds, pre |-> pre]

\* What is kept of the event e before a call: whether e was that same call, and
\* if so how many commands it issued
Repeat(e, op, identity, arg) ==
    IF e.op = op /\ e.identity = identity /\ e.arg = arg
    THEN [same |-> TRUE, ncmds |-> Len(e.cmds)]
    ELSE [same |-> FALSE, ncmds |-> 0]

NoRepeat == [same |-> FALSE, ncmds |-> 0]

NoEvent(op) == [op |-> op, identity |-> "", arg |-> "", result |-> PyNone,
                cmds |-> <<>>, pre |-> servers]

\* A driver call: the cloud accepts the commands the method issued
Call(op, identity, arg, out) ==
    /\ servers' = Accept(servers, out.cmds)
    /\ last' = Event(op, identity, arg, out, servers)
    /\ prev' = Repeat(last, op, identity, arg)
    /\ UNCHANGED <<flavors, os_cloud>>

Call_uuid ==
    \E identity \in Identities : Call("uuid", identity, "", uuid(identity))

Call_get_power_state ==
    \E identity \in Identities :
        Call("get_power_state", identity, "", get_power_state(identity))

Call_set_power_state ==
    \E identity \in Identities, state \in ResetTypes :
        Call("set_power_state", identity, state, set_power_state(identity, state))

Call_get_boot_device ==
    \E identity \in Identities :
        Call("get_boot_device", identity, "", get_boot_device(identity))

Call_set_boot_device ==
    \E identity \in Identities, boot_source \in BootSources :
        Call("set_boot_device", identity, boot_source,
             set_boot_device(identity, boot_source))

Call_get_total_memory ==
    \E identity \in Identities :
        Call("get_total_memory", identity, "", get_total_memory(identity))

Call_get_total_cpus ==
    \E identity \in Identities :
        Call("get_total_cpus", identity, "", get_total_cpus(identity))

\* The cloud changes on its own, between the driver's calls: the driver holds
\* no copy of any of it.
Backend(cloud, catalog) ==
    /\ servers' = cloud
    /\ flavors' = catalog
    /\ last' = NoEvent("backend")
    /\ prev' = NoRepeat
    /\ UNCHANGED os_cloud

\* A power code moves: a requested start completes, a guest shuts down, ...
BackendPowerChange ==
    \E id \in DOMAIN servers : \E code \in PowerCodes \ {servers[id].power_state} :
        Backend([servers EXCEPT ![id].power_state = code], flavors)

\* Another client rewrites a server's metadata
BackendMetadataChange ==
    \E id \in DOMAIN servers : \E metadata \in Metadatas \ {servers[id].metadata} :
        Backend([servers EXCEPT ![id].metadata = metadata], flavors)

BackendCreateServer ==
    \E id \in ServerIds \ DOMAIN servers, server \in ServerRecs :
        /\ server.name = ServerName(id)
        /\ Backend([i \in DOMAIN servers \cup {id} |->
                       IF i = id THEN server ELSE servers[i]], flavors)

BackendDeleteServer ==
    \E id \in DOMAIN servers :
        Backend([i \in DOMAIN servers \ {id} |-> servers[i]], flavors)

\* A flavor is deleted, created or redefined
BackendFlavorChange ==
    \E catalog \in Catalogs \ {flavors} : Backend(servers, catalog)

Init ==
    /\ servers \in Clouds
    /\ flavors \in Catalogs
    /\ os_cloud = "devstack"
    /\ last = NoEvent("init")
    /\ prev = NoRepeat

Next ==
    \/ Call_uuid
    \/ Call_get_power_state
    \/ Call_set_power_state
    \/ Call_get_boot_device
    \/ Call_set_boot_device
    \/ Call_get_total_memory
    \/ Call_get_total_cpus
    \/ BackendPowerChange
    \/ BackendMetadataChange
    \/ BackendCreateServer
    \/ BackendDeleteServer
    \/ BackendFlavorChange

Spec == Init /\ [][Next]_vars

----------------------------------------------------------------------------
(* The claims.  Each is about the latest event `last`: the call, what it    *)
(* returned or raised, the commands it issued, the cloud before it         *)
(* (last.pre) and the cloud after it (servers).                            *)

\* The servers the call's identity matched in the cloud the call saw
Matched == {id \in DOMAIN last.pre : id = last.identity \/ last.pre[id].name = last.identity}

Resolved == Matched # {}

Instance == CHOOSE id \in Matched : TRUE

\* The spec's error taxonomy, as the driver's FishyErrors
NotFound(r) == Raised(r, "FishyError") /\ r.text = InstanceNotFoundMsg

UnsupportedOperation(r) ==
    Raised(r, "FishyError") /\ r.text \in {UnknownResetTypeMsg, UnknownBootSourceMsg}

Issued(call, arg) == \E i \in 1..Len(last.cmds) :
                         last.cmds[i] = Command(call, Instance, arg)

ReadOnlyQueries == {"get_power_state", "get_boot_device", "get_total_memory", "get_total_cpus"}

Commands == {"uuid", "set_power_state", "set_boot_device"}

SupportedResetTypes ==
    {"On", "ForceOn", "ForceOff", "GracefulShutdown", "GracefulRestart", "ForceRestart"}

FlavorMissing == Resolved /\ servers[Instance].flavor_id \notin DOMAIN flavors

\* C1: set_boot_device with a device other than Pxe and Hdd (Cd included) on an
\* existing instance fails with UnsupportedOperation, issues no metadata write,
\* and leaves the metadata, and so what get_boot_device returns, as they were.
C1_UnsupportedDeviceRejected ==
    (last.op = "set_boot_device" /\ Resolved /\ last.arg \notin {"Pxe", "Hdd"}) =>
        /\ UnsupportedOperation(last.result)
        /\ last.cmds = <<>>
        /\ servers = last.pre

\* C2: for an identity the backend does not resolve, the four read-only queries
\* return None and never raise, uuid, set_power_state and set_boot_device raise
\* NotFound, and no backend command is issued.
C2_UnresolvedIdentity ==
    (last.op \in ReadOnlyQueries \cup Commands /\ ~Resolved) =>
        /\ last.op \in ReadOnlyQueries => last.result = PyNone
        /\ last.op \in Commands =>
               NotFound(last.result) /\ last.result.args[1] = last.identity
        /\ last.cmds = <<>>
        /\ servers = last.pre

C2_Witness ==
    /\ last.op = "get_total_memory" /\ ~Resolved /\ last.identity = "uuid-1"
    /\ last.result = PyNone

\* C3: when the instance exists and its flavor is gone from the catalog, flavor
\* resolution fails with NotFound, and get_total_memory and get_total_cpus
\* return None instead of raising.
C3_MissingFlavorUndetermined ==
    (last.op \in {"get_total_memory", "get_total_cpus"} /\ FlavorMissing) =>
        /\ NotFound(_get_flavor(last.identity))
        /\ last.result = PyNone

\* C4: one set_power_state on an existing instance issues at most one command,
\* chosen from the power code read in that call: start iff On/ForceOn and not
\* on; stop iff ForceOff/GracefulShutdown and on; soft reboot iff
\* GracefulRestart and on; hard reboot iff ForceRestart and on; otherwise, for
\* a supported token, success and no command.
C4_PowerTransitionPolicy ==
    (last.op = "set_power_state" /\ Resolved) =>
        LET on == last.pre[Instance].power_state = 1
            token == last.arg
        IN  /\ Len(last.cmds) <= 1
            /\ Issued("start_server", "") <=> (token \in {"On", "ForceOn"} /\ ~on)
            /\ Issued("stop_server", "") <=>
                   (token \in {"ForceOff", "GracefulShutdown"} /\ on)
            /\ Issued("reboot_server", "SOFT") <=> (token = "GracefulRestart" /\ on)
            /\ Issued("reboot_server", "HARD") <=> (token = "ForceRestart" /\ on)
            /\ \A i \in 1..Len(last.cmds) :
                   /\ last.cmds[i].id = Instance
                   /\ <<last.cmds[i].call, last.cmds[i].arg>> \in
                          {<<"start_server", "">>, <<"stop_server", "">>,
                           <<"reboot_server", "SOFT">>, <<"reboot_server", "HARD">>}
            /\ token \in SupportedResetTypes => last.result = PyNone

C4_Witness ==
    /\ last.op = "set_power_state" /\ Resolved /\ last.arg = "GracefulShutdown"
    /\ last.pre[Instance].power_state = 0
    /\ last.cmds = <<>> /\ last.result = PyNone

\* C5: set_power_state(id, "On") called twice in a row on an instance that is
\* already On issues at most one start over the two calls, and the second call
\* issues none.
C5_OnTwiceIdempotent ==
    (/\ last.op = "set_power_state" /\ last.arg = "On" /\ Resolved
     /\ prev.same
     /\ last.pre[Instance].power_state = 1) =>
        /\ prev.ncmds + Len(last.cmds) <= 1
        /\ last.cmds = <<>>

C5_Witness ==
    /\ last.op = "set_power_state" /\ last.arg = "On" /\ Resolved
    /\ prev.same
    /\ last.pre[Instance].power_state = 1
    /\ last.result = PyNone

\* C6: set_power_state with "Nmi", or any token outside the six supported ones,
\* raises UnsupportedOperation naming the token and issues no backend call,
\* whatever the power code.
C6_UnknownResetTypeRejected ==
    (last.op = "set_power_state" /\ Resolved /\ last.arg \notin SupportedResetTypes) =>
        /\ UnsupportedOperation(last.result)
        /\ last.result.args = <<last.arg>>
        /\ last.cmds = <<>>
        /\ servers = last.pre

C6_Witness ==
    /\ last.op = "set_power_state" /\ Resolved /\ last.arg = "Nmi"
    /\ last.pre[Instance].power_state = 1
    /\ last.result = FishyError(UnknownResetTypeMsg, <<"Nmi">>)

\* C7: right after a successful set_boot_device(id, "Pxe") get_boot_device(id)
\* returns Pxe, and right after a successful set_boot_device(id, "Hdd") it
\* returns Hdd; the flag is written '1' (truthy) for Pxe and '' for Hdd.
C7_BootDeviceRoundTrip ==
    (/\ last.op = "set_boot_device" /\ last.arg \in {"Pxe", "Hdd"}
     /\ last.result = PyNone) =>
        /\ Resolved
        /\ get_boot_device(last.identity).result = PyStr(last.arg)
        /\ last.arg = "Pxe" => Truthy(DictGet(servers[Instance].metadata, PxeFirstKey))
        /\ last.arg = "Hdd" => DictGet(servers[Instance].metadata, PxeFirstKey) = PyStr("")

C7_Witness ==
    /\ last.op = "set_boot_device" /\ last.arg = "Hdd" /\ last.result = PyNone
    /\ Resolved
    /\ last.pre[Instance].metadata = [k \in {PxeFirstKey, "role"} |->
                                         IF k = "role" THEN "db" ELSE "0"]
    /\ servers[Instance].metadata = [k \in {PxeFirstKey, "role"} |->
                                        IF k = "role" THEN "db" ELSE ""]

\* C8: for an existing instance get_power_state returns On when the power code
\* is 1 and Off for every other code, never None.
C8_PowerStateMapping ==
    (last.op = "get_power_state" /\ Resolved) =>
        /\ last.pre[Instance].power_state = 1 => last.result = PyStr("On")
        /\ last.pre[Instance].power_state # 1 => last.result = PyStr("Off")

C8_Witness ==
    /\ last.op = "get_power_state" /\ Resolved
    /\ last.pre[Instance].power_state > 1
    /\ last.result = PyStr("Off")

\* C9: for an existing instance whose flavor resolves, get_total_memory returns
\* the ceiling of ram / 1024 (1537 gives 2, 2048 gives 2, an exact multiple is
\* not rounded up by one), and get_total_cpus returns the flavor's vcpus.
C9_MemoryCeilingAndCpus ==
    (Resolved /\ ~FlavorMissing) =>
        LET flavor == flavors[servers[Instance].flavor_id]
            gib == last.result.num
        IN  /\ last.op = "get_total_memory" =>
                   /\ last.result = PyInt(gib)
                   /\ gib * 1024 >= flavor.ram
                   /\ (gib - 1) * 1024 < flavor.ram
                   /\ flavor.ram = 1537 => gib = 2
                   /\ flavor.ram = 2048 => gib = 2
            /\ last.op = "get_total_cpus" => last.result = PyInt(flavor.vcpus)

C9_Witness ==
    /\ last.op = "get_total_memory" /\ Resolved /\ ~FlavorMissing
    /\ flavors[servers[Instance].flavor_id].ram = 1537
    /\ last.result = PyInt(2)

\* C10: for an existing instance get_boot_device returns exactly one of Pxe and
\* Hdd, decided by the pxe-first flag alone: Pxe when it is present and truthy,
\* Hdd when it is absent or empty; never Cd, never None.
C10_BootDeviceFromFlag ==
    (last.op = "get_boot_device" /\ Resolved) =>
        LET metadata == last.pre[Instance].metadata
            truthy == PxeFirstKey \in DOMAIN metadata /\ metadata[PxeFirstKey] # ""
        IN  /\ truthy => last.result = PyStr("Pxe")
            /\ ~truthy => last.result = PyStr("Hdd")

C10_Witness ==
    /\ last.op = "get_boot_device" /\ Resolved
    /\ last.pre[Instance].metadata = [k \in {PxeFirstKey, "role"} |->
                                         IF k = "role" THEN "db" ELSE ""]
    /\ last.result = PyStr("Hdd")

====
